---- MODULE Spec2Model ----
(***************************************************************************)
(* Chunking and retrieval index of src/app.py: TextSplitter.split_text and *)
(* DocumentProcessor (process_file, search_documents, get_summary,         *)
(* clear_all).  A Python str is a sequence of one-character strings; the   *)
(* strings kept in the state (a Document's content, the terms of the       *)
(* vocabulary, a query) are stored run-length packed (Pack, Unpack).       *)
(***************************************************************************)
EXTENDS Integers, Sequences, FiniteSets, TLC

VARIABLES
    documents,          \* DocumentProcessor.documents: sequence of Document
    document_vectors,   \* DocumentProcessor.document_vectors: None or the term-count rows
    vectorizer,         \* DocumentProcessor.vectorizer: its fitted attributes
    is_fitted,          \* DocumentProcessor.is_fitted
    ret,                \* what the running handler's operation returned (NoReturn: no
                        \* handler is running; the handlers run one at a time); in
                        \* ServeSpec, the response the service sent last
    reported,           \* history of the ingests since the last clear: the sum of the
                        \* chunk counts they returned, the files they took a chunk from
    sp_in,              \* split_text under test: its arguments
    sp_out,             \* split_text under test: its outcome
    tasks,              \* the service's event loop: the request handlers in flight
    running             \* the task whose callback has not yet come to an await or a
                        \* return (0: the event loop is free to run any task)

vars == <<documents, document_vectors, vectorizer, is_fitted, ret, reported, sp_in, sp_out,
          tasks, running>>

\* Python's None where a matrix, a score vector or a vocabulary is expected
None == <<>>

(***************************************************************************)
(* Python str primitives                                                   *)
(***************************************************************************)
Rep(c, n) == [i \in 1..n |-> c]

Min(S) == CHOOSE x \in S : \A y \in S : x <= y

\* a string as the sequence of its runs <<character, length>>, and back
RECURSIVE Pack(_)
Pack(s) ==
    IF s = <<>> THEN <<>>
    ELSE LET n == Min({i \in 1..Len(s) : i = Len(s) \/ s[i + 1] # s[1]})
         IN  <<<<s[1], n>>>> \o Pack(SubSeq(s, n + 1, Len(s)))

RECURSIVE Unpack(_)
Unpack(r) == IF r = <<>> THEN <<>> ELSE Rep(r[1][1], r[1][2]) \o Unpack(Tail(r))

Whitespace == {" ", "\n", "\t", "\r"}

\* s[i:j] for 0 <= i, 0 <= j (Python clips the slice at len(s))
Slice(s, i, j) == SubSeq(s, i + 1, IF j < Len(s) THEN j ELSE Len(s))

\* str.strip()
Strip(s) ==
    LET n == Len(s)
        \* the first non-whitespace character, and the last counted from the end
        lead == CHOOSE i \in 1..n :
                    s[i] \notin Whitespace /\ \A j \in 1..(i - 1) : s[j] \in Whitespace
        trail == CHOOSE d \in 1..n :
                    /\ s[n + 1 - d] \notin Whitespace
                    /\ \A e \in 1..(d - 1) : s[n + 1 - e] \in Whitespace
    IN  IF \A i \in 1..n : s[i] \in Whitespace THEN <<>>
        ELSE SubSeq(s, lead, n + 1 - trail)

\* positions >= start where sep occurs in s
Occurrences(s, sep, start) ==
    {i \in start..(Len(s) - Len(sep) + 1) : SubSeq(s, i, i + Len(sep) - 1) = sep}

\* `sep in s`
Contains(s, sep) == Occurrences(s, sep, 1) # {}

\* str.split(sep): the pieces between the leftmost non-overlapping occurrences
RECURSIVE SplitFrom(_, _, _)
SplitFrom(s, sep, start) ==
    LET occ == Occurrences(s, sep, start)
    IN  IF occ = {} THEN <<SubSeq(s, start, Len(s))>>
        ELSE <<SubSeq(s, start, Min(occ) - 1)>> \o SplitFrom(s, sep, Min(occ) + Len(sep))

Split(s, sep) == SplitFrom(s, sep, 1)

(***************************************************************************)
(* TextSplitter                                                            *)
(***************************************************************************)
DefaultChunkSize == 1500

DefaultChunkOverlap == 300

MinChunkLen == 50

Article == <<"\n", "\n", "A", "r", "t", "i", "c", "l", "e", " ">>

Section == <<"\n", "\n", "S", "e", "c", "t", "i", "o", "n", " ">>

Clause == <<"\n", "\n", "C", "l", "a", "u", "s", "e", " ">>

separators == <<Article, Section, Clause, <<"\n", "\n">>, <<"\n">>, <<".", " ">>, <<" ">>>>

\* the first separator of the list that occurs in the text (0: none does)
FirstSeparator(text) ==
    LET hit == {n \in 1..Len(separators) : Contains(text, separators[n])}
    IN  IF hit = {} THEN 0 ELSE Min(hit)

\* the loop over sections: current_chunk and chunks after sections i..end
RECURSIVE PackSections(_, _, _, _, _, _)
PackSections(sections, i, separator, chunk_size, current_chunk, chunks) ==
    IF i > Len(sections)
    THEN IF current_chunk # <<>> THEN Append(chunks, Strip(current_chunk)) ELSE chunks
    ELSE LET section_text == IF i > 1 THEN separator \o sections[i] ELSE sections[i]
         IN  IF Len(current_chunk) + Len(section_text) <= chunk_size
             THEN PackSections(sections, i + 1, separator, chunk_size,
                               current_chunk \o section_text, chunks)
             ELSE PackSections(sections, i + 1, separator, chunk_size, section_text,
                               IF current_chunk # <<>>
                               THEN Append(chunks, Strip(current_chunk)) ELSE chunks)

\* chunks after the separator loop
SeparatorChunks(text, chunk_size) ==
    LET n == FirstSeparator(text)
    IN  IF n = 0 THEN <<>>
        ELSE PackSections(Split(text, separators[n]), 1, separators[n], chunk_size, <<>>, <<>>)

\* range(0, stop, step) for step > 0, as the sequence of its values
Range0(stop, step) == [j \in 1..((stop + step - 1) \div step) |-> (j - 1) * step]

\* the fixed-width windows of the fallback loop, for a step > 0
Windows(text, chunk_size, step) ==
    LET starts == Range0(Len(text), step)
        chunk(j) == Slice(text, starts[j], starts[j] + chunk_size)
        kept == SelectSeq([j \in 1..Len(starts) |-> chunk(j)], LAMBDA c : Strip(c) # <<>>)
    IN  [j \in 1..Len(kept) |-> Strip(kept[j])]

\* mutant of LengthFilter: the length test lets a chunk of exactly 50 through
LengthFilterAtLeast(chunks) == SelectSeq(chunks, LAMBDA c : Len(Strip(c)) >= MinChunkLen)

LengthFilter(chunks) == SelectSeq(chunks, LAMBDA c : Len(Strip(c)) > MinChunkLen)

\* split_text: [raised |-> the call raised ValueError, chunks |-> the list returned]
split_text(text, chunk_size, chunk_overlap) ==
    LET chunks == SeparatorChunks(text, chunk_size)
        step == chunk_size - chunk_overlap
    IN  IF chunks # <<>> THEN [raised |-> FALSE, chunks |-> LengthFilter(chunks)]
        ELSE IF step = 0 THEN [raised |-> TRUE, chunks |-> <<>>]
        ELSE IF step < 0 THEN [raised |-> FALSE, chunks |-> <<>>]
        ELSE [raised |-> FALSE, chunks |-> LengthFilter(Windows(text, chunk_size, step))]

(***************************************************************************)
(* Inputs                                                                  *)
(***************************************************************************)
MaxDocs == 4

\* an uploaded file: its name, os.path.splitext(filename)[1].lower(), whether
\* its extractor decodes or parses the bytes (or raises), and the text it yields
File(filename, ext, readable, extracted) ==
    [filename |-> filename, ext |-> ext, readable |-> readable, extracted |-> extracted]

Files ==
    { File("a.txt", ".txt", TRUE, Rep("a", 60) \o <<"\n">>),
      File("ab.pdf", ".pdf", TRUE, Rep("a", 60) \o <<" ">> \o Rep("b", 60)),
      File("long.txt", ".txt", TRUE, Rep("a", 1260)),
      File("short.txt", ".txt", TRUE, Rep("a", 50)),
      File("blank.txt", ".txt", TRUE, <<" ", "\n">>),
      File("bad.docx", ".docx", FALSE, <<>>),
      File("x.exe", ".exe", TRUE, <<"a">>) }

Queries == {Pack(Rep("a", 60)), Pack(Rep("b", 60)), Pack(<<"z", "z">>)}

DefaultK == 15

Ks == {0, 1, 2, 3, DefaultK}

\* the extract_text_from_* methods: every one strips what it returns
ExtractText(f) == Strip(f.extracted)

\* each file's text_content, and its split_text with the splitter process_file
\* uses, computed once
FileText == [f \in Files |-> ExtractText(f)]

FileChunks ==
    [f \in Files |-> split_text(FileText[f], DefaultChunkSize, DefaultChunkOverlap)]

\* every text the vectorizer can be given: a chunk of a file, or a query
Texts == UNION {{Pack(FileChunks[f].chunks[i]) : i \in 1..Len(FileChunks[f].chunks)} :
                    f \in Files}
         \cup Queries

(***************************************************************************)
(* TfidfVectorizer(max_features=5000, stop_words='english',                *)
(* ngram_range=(1, 3), max_df=0.85, min_df=2) and cosine_similarity.       *)
(* A term is the sequence of its 1 to 3 tokens.  The model's vocabularies  *)
(* stay far below max_features, which therefore never prunes.              *)
(***************************************************************************)
MinDf == 2

MaxDfPercent == 85

MaxNGram == 3

NonWordChars == Whitespace \cup {".", ",", "|", "-"}

IsWordChar(c) == c \notin NonWordChars

Lower(c) == CASE c = "A" -> "a" [] c = "S" -> "s" [] c = "C" -> "c" [] OTHER -> c

\* ENGLISH_STOP_WORDS holds no word spelled with the letters a, b, z alone
StopWords == {}

\* the n-grams (n = 1..3) of a token sequence
NGrams(toks) ==
    {SubSeq(toks, p[1], p[1] + p[2] - 1) :
        p \in {q \in (1..Len(toks)) \X (1..MaxNGram) : q[1] + q[2] - 1 <= Len(toks)}}

\* token_pattern (?u)\b\w\w+\b on the lowercased text: the maximal runs of two or
\* more word characters, in order
RECURSIVE TokensFrom(_, _)
TokensFrom(s, start) ==
    LET begins == {i \in start..Len(s) : IsWordChar(s[i])}
    IN  IF begins = {} THEN <<>>
        ELSE LET b == Min(begins)
                 e == Min({j \in b..Len(s) : j = Len(s) \/ ~IsWordChar(s[j + 1])})
                 tok == [i \in 1..(e - b + 1) |-> Lower(s[b + i - 1])]
             IN  (IF e - b + 1 >= 2 /\ tok \notin StopWords THEN <<tok>> ELSE <<>>)
                 \o TokensFrom(s, e + 1)

Tokens(s) == TokensFrom(s, 1)

\* the analyzer's tokens and terms of each text, computed once
TextTokens ==
    [s \in Texts |-> LET toks == Tokens(Unpack(s)) IN [i \in 1..Len(toks) |-> Pack(toks[i])]]

TextTerms == [s \in Texts |-> NGrams(TextTokens[s])]

TermCount(toks, t) ==
    Cardinality({i \in 1..(Len(toks) - Len(t) + 1) : SubSeq(toks, i, i + Len(t) - 1) = t})

\* one row of the term-count matrix over a vocabulary; the tf-idf weight of a
\* cell is positive exactly when its count is
CountRow(text, vocab) == [t \in vocab |-> TermCount(TextTokens[text], t)]

\* fit_transform(texts): raises ValueError on an empty vocabulary, when
\* max_df * n_doc < min_df, and when pruning by document frequency leaves no term
fit_transform(texts) ==
    LET n == Len(texts)
        grams == [i \in 1..n |-> TextTerms[texts[i]]]
        all == UNION {grams[i] : i \in 1..n}
        df(t) == Cardinality({i \in 1..n : t \in grams[i]})
        kept == {t \in all : df(t) >= MinDf /\ 100 * df(t) <= MaxDfPercent * n}
    IN  IF all = {} \/ MaxDfPercent * n < 100 * MinDf \/ kept = {}
        THEN [raised |-> TRUE, vocabulary |-> {}, matrix |-> None]
        ELSE [raised |-> FALSE, vocabulary |-> kept,
              matrix |-> [i \in 1..n |-> CountRow(texts[i], kept)]]

\* scores are levels: 0 is 0.0, Threshold is the largest level not above 0.001
Threshold == 1

MaxScore == 3

SharesTerm(qv, row) == \E t \in DOMAIN qv : qv[t] > 0 /\ row[t] > 0

\* cosine_similarity(qv, matrix).flatten(): the vectors it can return; a score is
\* 0 exactly when the query and the row share no term, and equal rows score alike
CosineSimilarities(qv, matrix) ==
    {sims \in [1..Len(matrix) -> 0..MaxScore] :
        /\ \A i \in 1..Len(matrix) : (sims[i] = 0) <=> ~SharesTerm(qv, matrix[i])
        /\ \A i, j \in 1..Len(matrix) : matrix[i] = matrix[j] => sims[i] = sims[j]}

\* sims.argsort(): an index order of ascending score; the default sort kind is
\* not stable, so rows of equal score come in any order
RECURSIVE Ascending(_, _)
Ascending(sims, rows) ==
    IF rows = {} THEN {<<>>}
    ELSE LET least == {i \in rows : \A j \in rows : sims[i] <= sims[j]}
         IN  UNION {{<<i>> \o p : p \in Ascending(sims, rows \ {i})} : i \in least}

ArgSorts(sims) == Ascending(sims, 1..Len(sims))

\* order[-k:]
LastK(order, k) ==
    LET n == Len(order)
    IN  IF k > 0 THEN SubSeq(order, IF n - k + 1 > 1 THEN n - k + 1 ELSE 1, n)
        ELSE SubSeq(order, 1 - k, n)

\* order[::-1]
Reverse(s) == [i \in 1..Len(s) |-> s[Len(s) + 1 - i]]

\* order[:m]
FirstM(order, m) == SubSeq(order, 1, IF m < Len(order) THEN m ELSE Len(order))

(***************************************************************************)
(* DocumentProcessor                                                       *)
(***************************************************************************)
Document(content, filename, chunk_id) ==
    [content |-> content, filename |-> filename, chunk_id |-> chunk_id]

NoReturn == [op |-> "none"]

NoReport == [chunks |-> 0, files |-> {}]

NoCall == [text |-> <<>>, chunk_size |-> 0, chunk_overlap |-> 0]

NoOutcome == [done |-> FALSE, raised |-> FALSE, chunks |-> <<>>]

\* the requests the service handles at a time
MaxRequests == 2

Requests == 1..MaxRequests

NoTask == [handler |-> "none"]

Init ==
    /\ documents = <<>>
    /\ document_vectors = None
    /\ vectorizer = [vocabulary_ |-> {}, idf_ |-> FALSE]
    /\ is_fitted = FALSE
    /\ ret = NoReturn
    /\ reported = NoReport
    /\ sp_in = NoCall
    /\ sp_out = NoOutcome
    /\ tasks = [r \in Requests |-> NoTask]
    /\ running = 0

ErrorOutcome(f) == [op |-> "process_file", filename |-> f.filename, status |-> "error"]

\* the Documents process_file appends for the chunks of one file
NewDocuments(filename, chunks) ==
    [i \in 1..Len(chunks) |-> Document(Pack(chunks[i]), filename, i - 1)]

\* a fit_transform that raises has already replaced the tf-idf transformer by
\* an unfitted one in the library versions that build it per fit and has left
\* it alone in the others; vocabulary_ is assigned only on success
AfterFailedFit(v) ==
    {[vocabulary_ |-> v.vocabulary_, idf_ |-> b] : b \in {FALSE, v.idf_}}

process_file(f) ==
    /\ ret = NoReturn
    /\ UNCHANGED <<sp_in, sp_out, tasks, running>>
    /\ IF f.ext \notin {".pdf", ".docx", ".txt"} \/ ~f.readable
          \/ Strip(FileText[f]) = <<>>
       THEN /\ ret' = ErrorOutcome(f)
            /\ UNCHANGED <<documents, document_vectors, vectorizer, is_fitted, reported>>
       ELSE LET text_content == FileText[f]
                split == FileChunks[f]
                chunks == split.chunks
                docs == documents \o NewDocuments(f.filename, chunks)
                fit == fit_transform([i \in 1..Len(docs) |-> docs[i].content])
            IN  /\ Len(docs) <= MaxDocs
                /\ IF split.raised
                   THEN /\ ret' = ErrorOutcome(f)
                        /\ UNCHANGED <<documents, document_vectors, vectorizer, is_fitted,
                                       reported>>
                   ELSE /\ documents' = docs
                        /\ IF docs = <<>>
                           THEN /\ UNCHANGED <<document_vectors, vectorizer, is_fitted>>
                                /\ ret' = [op |-> "process_file", filename |-> f.filename,
                                           status |-> "success", chunks |-> Len(chunks),
                                           content_length |-> Len(text_content)]
                           ELSE IF fit.raised
                           THEN /\ vectorizer' \in AfterFailedFit(vectorizer)
                                /\ UNCHANGED <<document_vectors, is_fitted>>
                                /\ ret' = ErrorOutcome(f)
                           ELSE /\ vectorizer' = [vocabulary_ |-> fit.vocabulary, idf_ |-> TRUE]
                                /\ document_vectors' = fit.matrix
                                /\ is_fitted' = TRUE
                                /\ ret' = [op |-> "process_file", filename |-> f.filename,
                                           status |-> "success", chunks |-> Len(chunks),
                                           content_length |-> Len(text_content)]
                        /\ reported' =
                             [chunks |-> IF ret'.status = "success"
                                         THEN reported.chunks + ret'.chunks
                                         ELSE reported.chunks,
                              files |-> IF Len(chunks) >= 1
                                        THEN reported.files \cup {f.filename}
                                        ELSE reported.files]

\* mutant of Results: no fallback to the top 3 rows
ResultsNoFallback(top, sims) ==
    SelectSeq([i \in 1..Len(top) |-> [idx |-> top[i], score |-> sims[top[i]]]],
              LAMBDA r : r.score > Threshold)

\* the results list search_documents builds from an index order `top`;
\* an entry [idx, score] stands for the pair (documents[idx], sims[idx])
Results(top, sims) ==
    LET hit(i) == [idx |-> top[i], score |-> sims[top[i]]]
        results == SelectSeq([i \in 1..Len(top) |-> hit(i)], LAMBDA r : r.score > Threshold)
        top3 == FirstM(top, 3)
    IN  IF results = <<>> /\ documents # <<>>
        THEN [i \in 1..Len(top3) |-> hit(i)]
        ELSE results

SearchOutcome(query, k, sims, results) ==
    [op |-> "search_documents", query |-> query, k |-> k, sims |-> sims, results |-> results]

\* what search_documents can return in the current state
SearchReturns(query, k) ==
    IF ~is_fitted \/ documents = <<>>
    THEN {SearchOutcome(query, k, None, <<>>)}
    ELSE IF ~vectorizer.idf_
    THEN {SearchOutcome(query, k, None, <<>>)}
    ELSE UNION {{SearchOutcome(query, k, sims, Results(Reverse(LastK(order, k)), sims)) :
                   order \in ArgSorts(sims)} :
                sims \in CosineSimilarities(CountRow(query, vectorizer.vocabulary_),
                                            document_vectors)}

search_documents(query, k) ==
    /\ ret = NoReturn
    /\ UNCHANGED <<documents, document_vectors, vectorizer, is_fitted, reported, sp_in, sp_out,
                   tasks, running>>
    /\ ret' \in SearchReturns(query, k)

get_summary ==
    /\ ret = NoReturn
    /\ ret' = [op |-> "get_summary", total_chunks |-> Len(documents),
               unique_files |-> {documents[i].filename : i \in 1..Len(documents)}]
    /\ UNCHANGED <<documents, document_vectors, vectorizer, is_fitted, reported, sp_in, sp_out, tasks, running>>

\* mutant of clear_all: the three attributes are compared, not assigned
clear_all_no_reset ==
    /\ ret = NoReturn
    /\ ret' = [op |-> "clear_all"]
    /\ reported' = NoReport
    /\ UNCHANGED <<documents, document_vectors, is_fitted, vectorizer, sp_in, sp_out, tasks, running>>

clear_all ==
    /\ ret = NoReturn
    /\ documents' = <<>>
    /\ document_vectors' = None
    /\ is_fitted' = FALSE
    /\ ret' = [op |-> "clear_all"]
    /\ reported' = NoReport
    /\ UNCHANGED <<vectorizer, sp_in, sp_out, tasks, running>>

\* the handler hands the outcome to its client and ends
Return ==
    /\ ret # NoReturn
    /\ ret' = NoReturn
    /\ UNCHANGED <<documents, document_vectors, vectorizer, is_fitted, reported, sp_in, sp_out, tasks, running>>

Next ==
    \/ \E f \in Files : process_file(f)
    \/ \E query \in Queries, k \in Ks : search_documents(query, k)
    \/ get_summary
    \/ clear_all
    \/ Return

Spec == Init /\ [][Next]_vars

(***************************************************************************)
(* split_text on its own: any text of up to MaxBlocks blocks of letters    *)
(* joined by separators, any chunk_size and chunk_overlap of a small set   *)
(***************************************************************************)
MaxBlocks == 2

Blocks == {Rep("a", 3), Rep("a", 55), Rep("a", 70)}

RECURSIVE BlockTexts(_)
BlockTexts(n) ==
    IF n = 1 THEN Blocks
    ELSE {t \o separators[i] \o b : t \in BlockTexts(n - 1), i \in 1..Len(separators), b \in Blocks}

SplitInputs ==
    [text : UNION {BlockTexts(n) : n \in 1..MaxBlocks},
     chunk_size : {60, 130},
     chunk_overlap : {0, 60, 70}]

SplitInit ==
    /\ documents = <<>>
    /\ document_vectors = None
    /\ vectorizer = [vocabulary_ |-> {}, idf_ |-> FALSE]
    /\ is_fitted = FALSE
    /\ ret = NoReturn
    /\ reported = NoReport
    /\ sp_in \in SplitInputs
    /\ sp_out = NoOutcome
    /\ tasks = [r \in Requests |-> NoTask]
    /\ running = 0

CallSplitText ==
    /\ ~sp_out.done
    /\ sp_out' = [done |-> TRUE,
                  raised |-> split_text(sp_in.text, sp_in.chunk_size, sp_in.chunk_overlap).raised,
                  chunks |-> split_text(sp_in.text, sp_in.chunk_size, sp_in.chunk_overlap).chunks]
    /\ UNCHANGED <<documents, document_vectors, vectorizer, is_fitted, ret, reported, sp_in,
                   tasks, running>>

SplitNext == CallSplitText

SplitSpec == SplitInit /\ [][SplitNext]_vars

(***************************************************************************)
(* The service: uvicorn runs the module's app in one process on one event  *)
(* loop, and every route handler is an `async def`, a task of that loop.   *)
(* A task runs from one await to the next without giving the loop away;    *)
(* the handlers' only await is `await file.read()` in upload_documents.    *)
(* process_file is taken in two steps, the append and the refit, with the  *)
(* loop held in between, so that what can run between them is a matter of  *)
(* the model.  A file's bytes, the chat model's answer and the response    *)
(* bodies other than their counts are left out.                            *)
(***************************************************************************)
\* the files of one upload request
MaxUpload == 2

\* the files a client uploads, by name
ServeFiles == {"a.txt", "long.txt", "x.exe"}

FileNamed(filename) == CHOOSE f \in Files : f.filename = filename

\* the content type a client sends with a file
ContentType(f) ==
    CASE f.ext = ".pdf" -> "application/pdf"
      [] f.ext = ".docx" ->
           "application/vnd.openxmlformats-officedocument.wordprocessingml.document"
      [] f.ext = ".txt" -> "text/plain"
      [] OTHER -> "application/octet-stream"

AllowedContentTypes ==
    {"application/pdf",
     "application/vnd.openxmlformats-officedocument.wordprocessingml.document",
     "text/plain"}

UploadTask(files) ==
    [handler |-> "upload_documents", pc |-> "for", files |-> files, results |-> <<>>]

NewTasks ==
    {UploadTask(files) : files \in UNION {[1..n -> ServeFiles] : n \in 1..MaxUpload}}
        \cup {[handler |-> "chat_with_documents", message |-> q] : q \in Queries}
        \cup {[handler |-> "get_document_summary"], [handler |-> "clear_documents"]}

\* the loop unchanged but for task r
SetTask(r, t) == tasks' = [tasks EXCEPT ![r] = t]

\* the upload task r is done with the file it was on, with the given status
NextFile(r, status) ==
    SetTask(r, [tasks[r] EXCEPT !.pc = "for", !.files = Tail(@),
                                !.results = Append(@, status)])

\* a request arrives and the loop creates its handler's task
Request(r) ==
    /\ running = 0
    /\ tasks[r] = NoTask
    /\ \E t \in NewTasks : SetTask(r, t)
    /\ UNCHANGED <<documents, document_vectors, vectorizer, is_fitted, ret, reported,
                   sp_in, sp_out, running>>

\* upload_documents, one turn of its loop up to the await, or its return
UploadFor(r) ==
    /\ running = 0
    /\ tasks[r].handler = "upload_documents"
    /\ tasks[r].pc = "for"
    /\ IF tasks[r].files = <<>>
       THEN /\ SetTask(r, NoTask)
            /\ ret' = [op |-> "upload_documents", results |-> tasks[r].results]
       ELSE /\ IF ContentType(FileNamed(Head(tasks[r].files))) \notin AllowedContentTypes
               THEN NextFile(r, "error")
               ELSE SetTask(r, [tasks[r] EXCEPT !.pc = "read"])
            /\ UNCHANGED ret
    /\ UNCHANGED <<documents, document_vectors, vectorizer, is_fitted, reported,
                   sp_in, sp_out, running>>

\* the read is over and process_file runs up to the end of its append loop
IngestAppend(r) ==
    /\ running = 0
    /\ tasks[r].handler = "upload_documents"
    /\ tasks[r].pc = "read"
    /\ UNCHANGED <<document_vectors, vectorizer, is_fitted, ret, reported, sp_in, sp_out>>
    /\ LET f == FileNamed(Head(tasks[r].files))
           docs == documents \o NewDocuments(f.filename, FileChunks[f].chunks)
       IN  IF f.ext \notin {".pdf", ".docx", ".txt"} \/ ~f.readable
              \/ Strip(FileText[f]) = <<>> \/ FileChunks[f].raised
           THEN /\ NextFile(r, "error")
                /\ UNCHANGED <<documents, running>>
           ELSE /\ Len(docs) <= MaxDocs
                /\ documents' = docs
                /\ IF docs = <<>>
                   THEN /\ NextFile(r, "success")
                        /\ UNCHANGED running
                   ELSE /\ SetTask(r, [tasks[r] EXCEPT !.pc = "fit"])
                        /\ running' = r

\* process_file from fit_transform to its return, then back in the handler
IngestFit(r) ==
    /\ running = r
    /\ tasks[r].pc = "fit"
    /\ running' = 0
    /\ UNCHANGED <<documents, ret, reported, sp_in, sp_out>>
    /\ LET fit == fit_transform([i \in 1..Len(documents) |-> documents[i].content])
       IN  IF fit.raised
           THEN /\ vectorizer' \in AfterFailedFit(vectorizer)
                /\ UNCHANGED <<document_vectors, is_fitted>>
                /\ NextFile(r, "error")
           ELSE /\ vectorizer' = [vocabulary_ |-> fit.vocabulary, idf_ |-> TRUE]
                /\ document_vectors' = fit.matrix
                /\ is_fitted' = TRUE
                /\ NextFile(r, "success")

\* chat_with_documents: no await from its first line to its return
Chat(r) ==
    /\ running = 0
    /\ tasks[r].handler = "chat_with_documents"
    /\ SetTask(r, NoTask)
    /\ IF documents = <<>>
       THEN ret' = [op |-> "chat_with_documents", retrieved_chunks |-> 0]
       ELSE \E out \in SearchReturns(tasks[r].message, DefaultK) :
              ret' = [op |-> "chat_with_documents", retrieved_chunks |-> Len(out.results)]
    /\ UNCHANGED <<documents, document_vectors, vectorizer, is_fitted, reported,
                   sp_in, sp_out, running>>

\* get_document_summary
Summary(r) ==
    /\ running = 0
    /\ tasks[r].handler = "get_document_summary"
    /\ SetTask(r, NoTask)
    /\ ret' = [op |-> "get_document_summary", total_chunks |-> Len(documents),
               unique_files |-> {documents[i].filename : i \in 1..Len(documents)}]
    /\ UNCHANGED <<documents, document_vectors, vectorizer, is_fitted, reported,
                   sp_in, sp_out, running>>

\* clear_documents
Clear(r) ==
    /\ running = 0
    /\ tasks[r].handler = "clear_documents"
    /\ SetTask(r, NoTask)
    /\ documents' = <<>>
    /\ document_vectors' = None
    /\ is_fitted' = FALSE
    /\ ret' = [op |-> "clear_documents"]
    /\ UNCHANGED <<vectorizer, reported, sp_in, sp_out, running>>

ServeNext ==
    \E r \in Requests :
        \/ Request(r)
        \/ UploadFor(r)
        \/ IngestAppend(r)
        \/ IngestFit(r)
        \/ Chat(r)
        \/ Summary(r)
        \/ Clear(r)

ServeSpec == Init /\ [][ServeNext]_vars

(***************************************************************************)
(* Properties                                                              *)
(***************************************************************************)
Contents == [i \in 1..Len(documents) |-> documents[i].content]

\* the index is the one fit_transform builds from the current Corpus
IndexCurrent ==
    /\ is_fitted
    /\ ~fit_transform(Contents).raised
    /\ document_vectors = fit_transform(Contents).matrix
    /\ vectorizer.vocabulary_ = fit_transform(Contents).vocabulary

Searched == ret.op = "search_documents"

\* the search computed scores and none is above the threshold
NoneAboveThreshold ==
    /\ Searched
    /\ ret.sims # None
    /\ \A i \in 1..Len(ret.sims) : ret.sims[i] <= Threshold

\* C1: whenever the Corpus is non-empty, the matrix and the vocabulary are the
\* ones built from exactly the current Corpus, row i for Corpus[i].
C1_IndexConsistent == documents # <<>> => IndexCurrent

\* a step of process_file that appends at least one segment
Accepts == ret'.op = "process_file" /\ Len(documents') > Len(documents)

\* C2: every ingest that accepts a segment leaves the index FITTED, every clear
\* leaves it UNFITTED, and the fit status changes in no other step.
C2_FitStatusMachine ==
    [][ /\ Accepts => is_fitted'
        /\ ret'.op = "clear_all" => ~is_fitted'
        /\ is_fitted' # is_fitted => Accepts \/ ret'.op = "clear_all" ]_vars

\* C3 as stated: on a fitted, non-empty Corpus, a search (any k) in which no
\* row scores above the threshold returns at least min(3, corpus size) results.
C3_FallbackAnyK ==
    (NoneAboveThreshold /\ is_fitted /\ documents # <<>>)
        => Len(ret.results) >= Min({3, Len(documents)})

\* C3 amended: on a non-empty Corpus whose index is built from it, a search
\* with k >= 1 in which no row scores above the threshold returns at least
\* min(3, k, corpus size) results, so at least one.
C3_FallbackUpToK ==
    (NoneAboveThreshold /\ IndexCurrent /\ documents # <<>> /\ ret.k >= 1)
        => /\ Len(ret.results) >= Min({3, ret.k, Len(documents)})
           /\ ret.results # <<>>

\* the fallback returned the top 3 rows of a Corpus of 4 under the default k
C3_Witness ==
    /\ NoneAboveThreshold /\ IndexCurrent
    /\ Len(documents) = 4 /\ ret.k = DefaultK /\ Len(ret.results) = 3

\* C4: on a non-empty Corpus a search returns at most k results, and their
\* scores are non-increasing in the order returned.
C4_AtMostKSorted ==
    (Searched /\ documents # <<>>)
        => /\ Len(ret.results) <= ret.k
           /\ \A i, j \in 1..Len(ret.results) :
                i < j => ret.results[i].score >= ret.results[j].score

\* C5: rows of equal score come earlier index first, in the results returned
\* and in the choice of the rows returned over the rows left out.
C5_TiesByInsertionOrder ==
    (Searched /\ ret.sims # None)
        => LET R == ret.results
               chosen == {R[i].idx : i \in 1..Len(R)}
           IN  /\ \A i, j \in 1..Len(R) :
                    (i < j /\ R[i].score = R[j].score) => R[i].idx < R[j].idx
               /\ \A i \in 1..Len(R), r \in 1..Len(ret.sims) :
                    (r \notin chosen /\ ret.sims[r] = R[i].score) => R[i].idx < r

\* C6: with chunk_overlap < chunk_size, every chunk split_text returns is at
\* most chunk_size long.
C6_ChunksWithinSize ==
    (sp_out.done /\ sp_in.chunk_overlap < sp_in.chunk_size)
        => \A i \in 1..Len(sp_out.chunks) : Len(sp_out.chunks[i]) <= sp_in.chunk_size

\* C7: every Document of the Corpus, and every chunk split_text returns for a
\* file, has a content of trimmed length above 50.
C7_SegmentsAboveMinLen ==
    /\ \A i \in 1..Len(documents) : Len(Strip(Unpack(documents[i].content))) > MinChunkLen
    /\ \A f \in Files : \A i \in 1..Len(FileChunks[f].chunks) :
            Len(Strip(FileChunks[f].chunks[i])) > MinChunkLen

\* a text of exactly 50 characters was ingested into a non-empty Corpus
C7_Witness ==
    /\ ret.op = "process_file" /\ ret.status = "success"
    /\ ret.chunks = 0 /\ ret.content_length = MinChunkLen
    /\ documents # <<>>

\* C8: a search returns the empty list whenever the index is not fitted, the
\* Corpus is empty, or no ingest since the last clear has reported a segment.
C8_UnfittedSearchEmpty ==
    (Searched /\ (~is_fitted \/ documents = <<>> \/ reported.chunks = 0))
        => ret.results = <<>>

\* a search right after a clear that followed a successful ingest
C8_Witness ==
    /\ Searched /\ ~is_fitted /\ documents = <<>>
    /\ vectorizer.idf_ /\ ret.results = <<>>

\* C9: the summary reports as many segments as the ingests since the last
\* clear returned in their counts, and the files those ingests took a segment
\* from.
C9_SummaryMatchesReports ==
    ret.op = "get_summary"
        => /\ ret.total_chunks = reported.chunks
           /\ ret.unique_files = reported.files

\* the fixed-width windows of a text taken with the step clamped to at least 1
ClampedWindows(text, chunk_size, chunk_overlap) ==
    LengthFilter(Windows(text, chunk_size,
                         IF chunk_size - chunk_overlap >= 1 THEN chunk_size - chunk_overlap ELSE 1))

\* C10: on a text without any separator and with chunk_size <= chunk_overlap,
\* split_text returns normally, with the windows of a step clamped to 1.
C10_FallbackStepClamped ==
    (sp_out.done /\ FirstSeparator(sp_in.text) = 0 /\ sp_in.chunk_size <= sp_in.chunk_overlap)
        => /\ ~sp_out.raised
           /\ sp_out.chunks = ClampedWindows(sp_in.text, sp_in.chunk_size, sp_in.chunk_overlap)

\* a step of process_file that returns an outcome with status 'error'
FailedIngest == ret.op = "none" /\ ret'.op = "process_file" /\ ret'.status = "error"

\* C12: a process_file that returns status 'error' leaves the Corpus, the
\* matrix and the fit flag exactly as they were before the call.
C12_FailedIngestAddsNothing ==
    [][FailedIngest => /\ documents' = documents
                       /\ document_vectors' = document_vectors
                       /\ is_fitted' = is_fitted]_vars

\* an ingest has appended its segments and is yet to come back from the refit
Rebuilding == \E r \in Requests : tasks[r].handler = "upload_documents" /\ tasks[r].pc = "fit"

\* the Corpus holds appended segments the matrix has not been rebuilt over
AppendedNotRebuilt == Len(documents) > Len(document_vectors)

\* a step in which task r searches, summarises or clears
OperationBy(r) ==
    /\ tasks[r].handler \in {"chat_with_documents", "get_document_summary", "clear_documents"}
    /\ tasks'[r] = NoTask

\* no search, summary or clear runs while an ingest is between its append and
\* its refit: the part of C11 that the event loop gives
HandlersSerialized == [][\A r \in Requests : OperationBy(r) => ~Rebuilding]_vars

====
